---------------------------- MODULE Spec2Model ----------------------------
(***************************************************************************)
(* State-machine model of WebriskCache (src/index.mjs, the class that      *)
(* starts at line 373): the three prefix databases and their               *)
(* synchronisation by requestDiff, the hit caches, and the lookup path     *)
(* check / findHash.                                                       *)
(*                                                                         *)
(* A Buffer is a sequence of bytes (0..255).  A hex string, the key type   *)
(* of every Map and Set of the class, is a sequence of hex digits (0..15), *)
(* two per byte.  Time is Date.now() in milliseconds.                      *)
(***************************************************************************)
EXTENDS Integers, Sequences, FiniteSets, TLC

(***************************************************************************)
(* Bounds of the explorations: how many inputs (calls of requestDiff,      *)
(* check and findHash, passages of time), remote calls and failures one    *)
(* behaviour has.                                                          *)
(***************************************************************************)
\* Spec: every operation
MaxInputs == 2
MaxDiffCalls == 2
MaxDiffFailures == 1
MaxChecks == 1
MaxSearchFailures == 1
MaxFinds == 1
MaxTicks == 1
\* LookupSpec: syncs, checks and passages of time, every remote call answered
LookupInputs == 3
\* ExpirySpec: check and findHash after a searchHashes call that was retried
ExpiryInputs == 3
ExpiryDiffCalls == 1
ExpiryChecks == 2
ExpirySearchFailures == 1
ExpiryFinds == 1
\* SyncSpec: requestDiff and the answers of computeThreatListDiff
SyncDiffCalls == 3
\* RetrySpec: syncs whose computeThreatListDiff calls may fail, and timers
RetryDiffCalls == 3
\* CloseSpec: the same with close
CloseDiffCalls == 2
\* ApplySpec: the applications of RESET and DIFF responses
ApplyDiffCalls == 3
\* AttemptsSpec: the diff calls of syncs whose remote calls may fail
AttemptsDiffCalls == 3
\* FrameSpec: the diff calls of syncs next to a check and a findHash
FrameDiffCalls == 3
\* BackoffSpec: one check whose searchHashes calls fail up to exhaustion
BackoffInputs == 2
BackoffDiffCalls == 1
BackoffChecks == 1
BackoffSearchFailures == 10

(***************************************************************************)
(* Program constants.                                                      *)
(***************************************************************************)
allTypes == <<"malware", "social", "unwanted">>

ThreatTypes == [malware |-> "MALWARE", social |-> "SOCIAL_ENGINEERING",
                unwanted |-> "UNWANTED_SOFTWARE"]

Types == {allTypes[i] : i \in 1..Len(allTypes)}

\* #simpleRetry(call, maxRetries=2, retryDelaySeconds=30)
simpleMaxRetries == 2
retryDelaySeconds == 30
\* #exponentialBackoff(call, startDelaySeconds=1, maxDelaySeconds=32, maxRetries=10)
startDelaySeconds == 1
maxDelaySeconds == 32
backoffMaxRetries == 10
\* this.#diffPromise(typeString, 900)
fallbackDeadline == 900

\* null and undefined; every value that may be null is a tuple
null == <<>>

\* the n-th version token the server issues, the n-th Timeout object
versionToken(n) == <<"token", n>>
timeoutObject(n) == <<"timeout", n>>

(***************************************************************************)
(* Buffers and hex strings.                                                *)
(***************************************************************************)
Min(a, b) == IF a < b THEN a ELSE b
Max(a, b) == IF a < b THEN b ELSE a

\* Buffer.prototype.subarray(start, end): both ends clamped to the buffer
subarray(buf, start, end) ==
  SubSeq(buf, Min(start, Len(buf)) + 1, Min(end, Len(buf)))

\* Buffer.prototype.toString('hex'): two hex digits per byte, high one first
hexEncode(buf) ==
  [k \in 1..(2 * Len(buf)) |->
     IF k % 2 = 1 THEN buf[(k + 1) \div 2] \div 16 ELSE buf[k \div 2] % 16]

\* Buffer.from(string, 'hex')
fromHex(str) ==
  [k \in 1..(Len(str) \div 2) |-> 16 * str[2 * k - 1] + str[2 * k]]

\* the elements of a sequence
Range(s) == {s[k] : k \in 1..Len(s)}

\* ascending sequence of a finite set of numbers: Array.from(set).sort((a, b) => a - b)
RECURSIVE sortNumbers(_)
sortNumbers(S) ==
  IF S = {} THEN <<>>
  ELSE LET m == CHOOSE x \in S : \A y \in S : x <= y
       IN  <<m>> \o sortNumbers(S \ {m})


(***************************************************************************)
(* The data of the exploration: three full hashes, two of which share      *)
(* their first four bytes, and the prefixes of them the server hands out.  *)
(***************************************************************************)
\* a 32-byte SHA-256 digest that starts with the given bytes
digest(head) == head \o [k \in 1..(32 - Len(head)) |-> 0]

HashA == digest(<<170, 187, 204, 221, 1>>)
HashB == digest(<<170, 187, 204, 221, 2>>)
HashC == digest(<<17, 34, 51, 68, 1>>)
Hashes == {HashA, HashB, HashC}

\* the k-th of six further 4-byte prefixes of the server's list, ascending
\* with k
listPrefix(k) == <<16 * k, 0, 0, k>>

\* hash.toString("hex") of the buffers of the exploration, encoded once
hexStrings ==
  [b \in {subarray(x, 0, n) : x \in Hashes, n \in 1..32}
           \cup {listPrefix(k) : k \in 1..6} |-> hexEncode(b)]

toHex(buf) ==
  IF buf \in DOMAIN hexStrings THEN hexStrings[buf] ELSE hexEncode(buf)

(***************************************************************************)
(* findHash(hash), lines 500-534.  The method reads the clock and deletes  *)
(* expired hit-cache entries, so the operator takes the two maps and the   *)
(* time and returns the two maps next to the returned pair.                *)
(***************************************************************************)
\* expireTime * 1000 < Date.now()
expired(expireTime, nowMs) == expireTime * 1000 < nowMs

\* lines 501-503: the registered prefix lengths, ascending, cut from the hash
prefixStringsOf(hash, sizes) ==
  LET fullSet     == sizes["malware"] \cup sizes["social"] \cup sizes["unwanted"]
      sortedOrder == sortNumbers(fullSet)
  IN  [k \in 1..Len(sortedOrder) |-> toHex(subarray(hash, 0, sortedOrder[k]))]

\* Map.prototype.delete
mapDelete(map, key) == [x \in (DOMAIN map) \ {key} |-> map[x]]

\* Map.prototype.set
mapSet(map, key, value) ==
  [x \in (DOMAIN map) \cup {key} |-> IF x = key THEN value ELSE map[x]]

\* lines 514-523: the loop over the negative cache, from the k-th prefix on
RECURSIVE negativeScan(_, _, _, _)
negativeScan(prefixStrings, k, negative, nowMs) ==
  IF k > Len(prefixStrings)
    THEN [found |-> FALSE, size |-> 0, negative |-> negative]
  ELSE LET prefixString == prefixStrings[k] IN
    IF prefixString \in DOMAIN negative
      THEN IF expired(negative[prefixString][1], nowMs)
             THEN negativeScan(prefixStrings, k + 1,
                               mapDelete(negative, prefixString), nowMs)
             ELSE [found |-> TRUE, size |-> Len(prefixString) \div 2,
                   negative |-> negative]
      ELSE negativeScan(prefixStrings, k + 1, negative, nowMs)

\* Set.prototype.has on a database, kept as the sequence of its keys in
\* insertion order
dbHas(db, prefixString) == \E k \in 1..Len(db) : db[k] = prefixString

\* a scan that does not ask the databases: the shortest registered length
databaseScanUnchecked(prefixStrings, dbs) ==
  IF prefixStrings = <<>> THEN <<"none", 0>>
  ELSE <<allTypes[1], Len(prefixStrings[1]) \div 2>>

\* lines 526-533: for each database in the order of Object.entries, for each
\* prefix string in ascending length, the first one stored
databaseScan(prefixStrings, dbs) ==
  LET hit(t) == {k \in 1..Len(prefixStrings) : dbHas(dbs[allTypes[t]], prefixStrings[k])}
      ts     == {t \in 1..Len(allTypes) : hit(t) # {}}
  IN  IF ts = {} THEN <<"none", 0>>
      ELSE LET t == CHOOSE x \in ts : \A y \in ts : x <= y
               k == CHOOSE x \in hit(t) : \A y \in hit(t) : x <= y
           IN  <<allTypes[t], Len(prefixStrings[k]) \div 2>>

\* a lookup that asks the negative cache before the positive one
findHashNegativeFirst(hash, h, dbs, sizes, nowMs) ==
  LET prefixStrings  == prefixStringsOf(hash, sizes)
      fullHashString == toHex(hash)
      n == negativeScan(prefixStrings, 1, h.negative, nowMs)
      g == [h EXCEPT !.negative = n.negative]
  IN
  IF n.found THEN [ret |-> <<"negative", n.size>>, hits |-> g]
  ELSE IF fullHashString \in DOMAIN h.positive
    THEN IF expired(h.positive[fullHashString][1], nowMs)
           THEN [ret  |-> databaseScan(prefixStrings, dbs),
                 hits |-> [g EXCEPT !.positive = mapDelete(@, fullHashString)]]
           ELSE [ret |-> <<"positive", 32>>, hits |-> g]
  ELSE [ret |-> databaseScan(prefixStrings, dbs), hits |-> g]

\* lines 500-534
findHash(hash, h, dbs, sizes, nowMs) ==
  LET prefixStrings  == prefixStringsOf(hash, sizes)
      fullHashString == toHex(hash)
  IN
  IF fullHashString \in DOMAIN h.positive
    THEN IF expired(h.positive[fullHashString][1], nowMs)
           THEN [ret  |-> databaseScan(prefixStrings, dbs),
                 hits |-> [h EXCEPT !.positive = mapDelete(@, fullHashString)]]
           ELSE [ret |-> <<"positive", 32>>, hits |-> h]
    ELSE LET n == negativeScan(prefixStrings, 1, h.negative, nowMs) IN
         IF n.found
           THEN [ret  |-> <<"negative", n.size>>,
                 hits |-> [h EXCEPT !.negative = n.negative]]
           ELSE [ret  |-> databaseScan(prefixStrings, dbs),
                 hits |-> [h EXCEPT !.negative = n.negative]]


(***************************************************************************)
(* The state.                                                              *)
(***************************************************************************)
VARIABLES
  now,              \* Date.now(), milliseconds
  tokens,           \* this.tokens: type -> version token or null
  updateTimeoutIDs, \* this.#updateTimeoutIDs: type -> timer id or null
  hits,             \* this.hits: positive and negative Map
  databases,        \* this.databases: type -> keys of the Set, insertion order
  prefixSizes,      \* this.prefixSizes: type -> Set of lengths
  timers,           \* the pending setTimeout timers of #diffPromise
  episodes,         \* the #requestSingleDiff invocations in flight
  chk,              \* the check() invocation in flight and its local variables
  lastDiff,         \* the outcome of the last requestDiff() call that settled
  closed,           \* close() has been called
  declared,         \* type -> response.checksum.sha256 of the last response
                    \* that #updateDB applied to the type, or null
  used,             \* the calls, timers and inputs so far
  limit             \* the bounds of the exploration on them

vars == <<now, tokens, updateTimeoutIDs, hits, databases, prefixSizes, timers,
          episodes, chk, lastDiff, closed, declared, used, limit>>

emptyMap == [x \in {} |-> <<>>]

\* Math.round(new Date().getTime() / 1000)
nowSeconds(nowMs) == (nowMs + 500) \div 1000

(***************************************************************************)
(* check(uri, isHash), lines 445-489.  The candidate hashes (getPrefixes    *)
(* or the one hash given) are the input.  The method runs without          *)
(* suspension from one await to the next: checkLoop is the for loop from   *)
(* candidate i up to the next searchHashes call or the return.  Next to    *)
(* the local variables, c.log keeps for every candidate evaluated what     *)
(* held of it when findHash was called, what findHash returned, the number *)
(* of searchHashes calls made for it, what it added to identifiedThreats,  *)
(* and of an answer the full hashes it listed and those of them that had   *)
(* their positive entry when lines 469-478 were done.                      *)
(***************************************************************************)
idleCheck ==
  [pc |-> "idle", hashes |-> <<>>, i |-> 0, identifiedThreats |-> {},
   typeString |-> "none", prefixSize |-> 0, retries |-> 0, delaySeconds |-> 0,
   due |-> 0, log |-> <<>>, outcome |-> "none", result |-> {}]

\* a is a leading part of b
isPrefixOf(a, b) == Len(a) <= Len(b) /\ SubSeq(b, 1, Len(a)) = a

\* what holds of a candidate hash at the moment findHash is called for it
seenAt(hash, h, dbs, nowMs) ==
  LET key == toHex(hash) IN
  [positive      |-> IF key \in DOMAIN h.positive THEN h.positive[key] ELSE <<>>,
   positiveFresh |-> key \in DOMAIN h.positive
                       /\ nowMs <= h.positive[key][1] * 1000,
   negativeFresh |-> \E p \in DOMAIN h.negative :
                       isPrefixOf(p, key) /\ nowMs <= h.negative[p][1] * 1000,
   inDatabase    |-> \E t \in Types : \E k \in 1..Len(dbs[t]) :
                       isPrefixOf(dbs[t][k], key)]

logEntry(hash, ret, h, dbs, nowMs) ==
  [hash |-> hash, ret |-> ret, seen |-> seenAt(hash, h, dbs, nowMs),
   calls |-> 0, added |-> {}, answered |-> FALSE, threats |-> <<>>,
   stored |-> {}]

RECURSIVE checkLoop(_, _, _, _, _)
checkLoop(c, h, dbs, sizes, nowMs) ==
  IF c.i > Len(c.hashes)
    THEN \* line 488: return Array.from(identifiedThreats.values())
         [chk  |-> [c EXCEPT !.pc = "idle", !.outcome = "resolved",
                             !.result = c.identifiedThreats],
          hits |-> h]
  ELSE
    LET fullHash == c.hashes[c.i]
        found    == findHash(fullHash, h, dbs, sizes, nowMs)
        entry    == logEntry(fullHash, found.ret, h, dbs, nowMs)
        fullHashString == toHex(fullHash)
    IN
    IF found.ret[1] \in Types
      THEN \* lines 453-463: the first searchHashes call of #exponentialBackoff
           [chk  |-> [c EXCEPT !.pc = "call",
                               !.typeString = found.ret[1],
                               !.prefixSize = found.ret[2],
                               !.retries = 0,
                               !.delaySeconds = startDelaySeconds,
                               !.log = Append(@, [entry EXCEPT !.calls = 1])],
            hits |-> found.hits]
    ELSE IF found.ret[1] = "positive"
      THEN \* lines 482-485
           LET threatTypes == found.hits.positive[fullHashString][2] IN
           checkLoop([c EXCEPT !.i = @ + 1,
                               !.identifiedThreats = @ \cup threatTypes,
                               !.log = Append(@, [entry EXCEPT !.added = threatTypes])],
                     found.hits, dbs, sizes, nowMs)
    ELSE checkLoop([c EXCEPT !.i = @ + 1, !.log = Append(@, entry)],
                   found.hits, dbs, sizes, nowMs)

\* lines 469-478: the loop over response.threats, from the k-th record on; it
\* stops at the record whose hash equals the queried one
RECURSIVE threatsLoop(_, _, _, _)
threatsLoop(threats, k, fullHash, acc) ==
  IF k > Len(threats) THEN acc
  ELSE LET threat == threats[k]
           stored == [acc EXCEPT !.positive =
                        mapSet(@, toHex(threat.hash),
                               <<threat.expireTime, threat.threatTypes>>)]
       IN  IF threat.hash = fullHash
             THEN [stored EXCEPT !.added = @ \cup threat.threatTypes]
             ELSE threatsLoop(threats, k + 1, fullHash, stored)


(***************************************************************************)
(* The database side: #updateDB, #removeFromDB, #addToDB, #validate.       *)
(***************************************************************************)
\* a < b in the order of Array.prototype.sort() without a comparator: by
\* code unit, a proper leading part first.  The hex digits 0-9a-f have
\* ascending code units, so digits compare by value.
RECURSIVE stringLess(_, _)
stringLess(a, b) ==
  IF a = <<>> THEN b # <<>>
  ELSE IF b = <<>> THEN FALSE
  ELSE IF Head(a) # Head(b) THEN Head(a) < Head(b)
  ELSE stringLess(Tail(a), Tail(b))

\* [...keys].sort() of distinct strings
RECURSIVE sortStrings(_)
sortStrings(S) ==
  IF S = {} THEN <<>>
  ELSE LET m == CHOOSE x \in S : \A y \in S \ {x} : stringLess(x, y)
       IN  <<m>> \o sortStrings(S \ {m})

\* Set.prototype.add on the sequence of keys
setAdd(db, key) == IF dbHas(db, key) THEN db ELSE Append(db, key)

\* lines 650-665: the keys at the listed zero-based positions are deleted
removeFromDB(db, removals) ==
  IF removals = null THEN db
  ELSE LET keep == {k \in 1..Len(db) : (k - 1) \notin Range(removals)}
           RECURSIVE pick(_)
           pick(k) == IF k > Len(db) THEN <<>>
                      ELSE IF k \in keep THEN <<db[k]>> \o pick(k + 1)
                      ELSE pick(k + 1)
       IN  pick(1)

\* lines 675-679: the buffer of one group is cut into pieces of prefixSize
\* bytes, from offset i on
RECURSIVE addBuffer(_, _, _, _)
addBuffer(db, buffer, prefixSize, i) ==
  IF i >= Len(buffer) THEN db
  ELSE addBuffer(setAdd(db, toHex(subarray(buffer, i, i + prefixSize))),
                 buffer, prefixSize, i + prefixSize)

\* lines 667-683, from the k-th group of additions.rawHashes on
RECURSIVE addGroups(_, _, _, _)
addGroups(db, sizes, rawHashes, k) ==
  IF k > Len(rawHashes) THEN [db |-> db, sizes |-> sizes]
  ELSE LET raw == rawHashes[k] IN
       addGroups(addBuffer(db, raw.rawHashes, raw.prefixSize, 0),
                 sizes \cup {raw.prefixSize}, rawHashes, k + 1)

\* additions stored without line 673, prefixSizes.add(prefixSize)
addToDBUnregistered(db, sizes, additions) ==
  IF additions = null THEN [db |-> db, sizes |-> sizes]
  ELSE [db |-> addGroups(db, sizes, additions, 1).db, sizes |-> sizes]

\* lines 667-683
addToDB(db, sizes, additions) ==
  IF additions = null THEN [db |-> db, sizes |-> sizes]
  ELSE addGroups(db, sizes, additions, 1)

\* lines 633-648 without line 643, this.prefixSizes[typeString].clear()
updateDBKeepsSizes(response, db, sizes) ==
  IF response.responseType = "DIFF"
    THEN LET a == addToDB(removeFromDB(db, response.removals), sizes,
                          response.additions)
         IN  [db |-> sortStrings(Range(a.db)), sizes |-> a.sizes,
              token |-> response.newVersionToken]
  ELSE IF response.responseType = "RESET"
    THEN LET a == addToDB(<<>>, sizes, response.additions)
         IN  [db |-> a.db, sizes |-> a.sizes, token |-> response.newVersionToken]
  ELSE [db |-> db, sizes |-> sizes, token |-> response.newVersionToken]

\* lines 633-648
updateDB(response, db, sizes) ==
  IF response.responseType = "DIFF"
    THEN LET a == addToDB(removeFromDB(db, response.removals), sizes,
                          response.additions)
         IN  [db |-> sortStrings(Range(a.db)), sizes |-> a.sizes,
              token |-> response.newVersionToken]
  ELSE IF response.responseType = "RESET"
    THEN LET a == addToDB(<<>>, {}, response.additions)
         IN  [db |-> a.db, sizes |-> a.sizes, token |-> response.newVersionToken]
  ELSE [db |-> db, sizes |-> sizes, token |-> response.newVersionToken]

\* the concatenation of a sequence of strings
RECURSIVE concat(_)
concat(ss) == IF ss = <<>> THEN <<>> ELSE Head(ss) \o concat(Tail(ss))

\* crypto.createHash('sha256').update(b).digest('hex'): a digest that is taken
\* to be free of collisions, so it stands for the bytes it was computed from
sha256(bytes) == <<"sha256", bytes>>

\* lines 685-698
validate(db, hashBuffer) == sha256(fromHex(concat(db))) = hashBuffer

(***************************************************************************)
(* #diffPromise(typeString, epochTimeDeadline), lines 616-624: the timer   *)
(* is created, the one recorded for the type is cleared, the new one is    *)
(* recorded.  A timer is [id, typeString, due]; a delay below zero is due  *)
(* at once.                                                                *)
(***************************************************************************)
\* a clearTimeout that cancels every pending timer
clearEveryTimeout(ts, timeoutID) == {}

clearTimeout(ts, timeoutID) == {t \in ts : t.id # timeoutID}

\* lines 616-624 without the clearTimeout of line 622
diffPromiseKeepsOld(ts, ids, typeString, epochTimeDeadline, nowMs, timeoutID) ==
  LET seconds == epochTimeDeadline - nowSeconds(nowMs)
  IN  [timers |-> ts \cup {[id |-> timeoutID, typeString |-> typeString,
                            due |-> nowMs + Max(seconds * 1000, 0)]},
       updateTimeoutIDs |-> [ids EXCEPT ![typeString] = timeoutID]]

diffPromise(ts, ids, typeString, epochTimeDeadline, nowMs, timeoutID) ==
  LET seconds == epochTimeDeadline - nowSeconds(nowMs)
      armed   == ts \cup {[id |-> timeoutID, typeString |-> typeString,
                           due |-> nowMs + Max(seconds * 1000, 0)]}
  IN  [timers |-> IF ids[typeString] # null
                    THEN clearTimeout(armed, ids[typeString]) ELSE armed,
       updateTimeoutIDs |-> [ids EXCEPT ![typeString] = timeoutID]]


(***************************************************************************)
(* The remote services: what computeThreatListDiff and searchHashes may    *)
(* answer.                                                                 *)
(***************************************************************************)
\* Date.now() at construction: an epoch time past the first 900 seconds
StartMs == 1000 * 1000
StartSeconds == StartMs \div 1000

Prefix4A == subarray(HashA, 0, 4)
Prefix5A == subarray(HashA, 0, 5)
Prefix4C == subarray(HashC, 0, 4)

\* responseType, additions.rawHashes and removals.rawIndices.indices of the
\* diff responses explored
ResetOne ==
  [responseType |-> "RESET", removals |-> null,
   additions |-> << [prefixSize |-> 4, rawHashes |-> Prefix4A] >>]
ResetTwoSizes ==
  [responseType |-> "RESET", removals |-> null,
   additions |-> << [prefixSize |-> 5, rawHashes |-> Prefix5A],
                    [prefixSize |-> 4, rawHashes |-> Prefix4C] >>]
DiffAdd ==
  [responseType |-> "DIFF", removals |-> null,
   additions |-> << [prefixSize |-> 5, rawHashes |-> Prefix5A] >>]
DiffRemove ==
  [responseType |-> "DIFF", removals |-> <<0>>, additions |-> null]
DiffBoth ==
  [responseType |-> "DIFF", removals |-> <<0, 3>>,
   additions |-> << [prefixSize |-> 4, rawHashes |-> Prefix4C \o Prefix4A] >>]

DiffPayloads == {ResetOne, ResetTwoSizes, DiffAdd, DiffRemove, DiffBoth}

\* recommendedNextDiff.seconds of the responses: epoch seconds
NextDiffTimes == {StartSeconds + 1800}

\* the list the server holds after the response, in its sorted order: the
\* client's entries (RESET: none), less the removals, with the additions
serverList(db, payload) ==
  LET base == IF payload.responseType = "RESET" THEN <<>>
              ELSE removeFromDB(sortStrings(Range(db)), payload.removals)
  IN  sortStrings(Range(addToDB(base, {}, payload.additions).db))

\* a checksum no list of the exploration has
wrongChecksum == sha256(<<0>>)

diffResponse(payload, db, checksumOK, version, nextDiff) ==
  [responseType       |-> payload.responseType,
   additions          |-> payload.additions,
   removals           |-> payload.removals,
   newVersionToken    |-> version,
   checksum           |-> IF checksumOK
                            THEN sha256(fromHex(concat(serverList(db, payload))))
                            ELSE wrongChecksum,
   recommendedNextDiff |-> nextDiff]

\* the categories the server lists a full hash under
serverTypes(hash) ==
  IF hash = HashA THEN {"SOCIAL_ENGINEERING"}
  ELSE IF hash = HashB THEN {"MALWARE", "UNWANTED_SOFTWARE"}
  ELSE {"MALWARE"}

\* what searchHashes may answer for a prefix: no threat, or every full hash
\* under the prefix, in either order
ThreatHashLists(prefix) ==
  LET match == {x \in Hashes : isPrefixOf(prefix, x)}
  IN  {<<>>} \cup {<<x>> : x \in {y \in match : match = {y}}}
             \cup {p \in match \X match : p[1] # p[2]}

\* expireTime.seconds of the threats of a response and its
\* negativeExpireTime.seconds (null: the response has none): epoch seconds
ExpireTimes == {StartSeconds, StartSeconds + 60}
NegativeExpireTimes == {null, <<StartSeconds + 30>>}

searchResponse(hs, expireTime, negativeExpireTime) ==
  [threats |-> [k \in 1..Len(hs) |->
                  [hash |-> hs[k], expireTime |-> expireTime,
                   threatTypes |-> serverTypes(hs[k])]],
   negativeExpireTime |-> negativeExpireTime]

\* every list searchHashes may answer with
SearchAnswers ==
  UNION {ThreatHashLists(p) : p \in {Prefix4A, Prefix5A, Prefix4C}}

\* the inputs of the exploration
CandidateLists == {<<HashA>>, <<HashC, HashA>>}
TypeArguments == {"malware", "social", "unwanted", "all", "phishing"}
Constraints == {"{}"}
TickSteps == {1000}

(***************************************************************************)
(* Initial state: the constructor, lines 378-411.                          *)
(***************************************************************************)
InitWith(l) ==
  /\ limit = l
  /\ now = StartMs
  /\ tokens = [t \in Types |-> null]
  /\ updateTimeoutIDs = [t \in Types |-> null]
  /\ hits = [positive |-> emptyMap, negative |-> emptyMap]
  /\ databases = [t \in Types |-> <<>>]
  /\ declared = [t \in Types |-> null]
  /\ prefixSizes = [t \in Types |-> {}]
  /\ timers = {}
  /\ episodes = {}
  /\ chk = idleCheck
  /\ lastDiff = "none"
  /\ closed = FALSE
  /\ used = [inputs |-> 0, diffCalls |-> 0, diffFailures |-> 0, checks |-> 0,
             searchFailures |-> 0, finds |-> 0, ticks |-> 0, timeouts |-> 0]

Init ==
  InitWith([inputs |-> MaxInputs, diffCalls |-> MaxDiffCalls, diffFailures |-> MaxDiffFailures,
            checks |-> MaxChecks, searchFailures |-> MaxSearchFailures,
            finds |-> MaxFinds, ticks |-> MaxTicks])


(***************************************************************************)
(* Time.  Timers fire in the order of their due times; the clock does not  *)
(* pass the due time of a pending timer.                                   *)
(***************************************************************************)
pendingDues ==
  {t.due : t \in timers}
    \cup {e.due : e \in {x \in episodes : x.pc = "delay"}}
    \cup (IF chk.pc = "delay" THEN {chk.due} ELSE {})

isNextDue(due) == \A d \in pendingDues : due <= d

Tick(step) ==
  /\ used.ticks < limit.ticks /\ used.inputs < limit.inputs
  /\ \A d \in pendingDues : now + step <= d
  /\ now' = now + step
  /\ used' = [used EXCEPT !.ticks = @ + 1, !.inputs = @ + 1]
  /\ UNCHANGED <<tokens, updateTimeoutIDs, hits, databases, declared, prefixSizes, timers,
                 episodes, chk, lastDiff, closed>>

(***************************************************************************)
(* requestDiff and the sync episodes, lines 422-434 and 547-626.           *)
(***************************************************************************)
\* lines 423-430 with an else branch that takes every other string for "all"
typeArrOfLenient(type) ==
  IF type \in Types THEN [ok |-> TRUE, typeArr |-> <<type>>]
  ELSE [ok |-> TRUE, typeArr |-> allTypes]

\* lines 423-430: the types to sync, or the thrown Error
typeArrOf(type) ==
  IF type = "all" THEN [ok |-> TRUE, typeArr |-> allTypes]
  ELSE IF type \in Types THEN [ok |-> TRUE, typeArr |-> <<type>>]
  ELSE [ok |-> FALSE, typeArr |-> <<>>]

\* a request that carries the stored token also when reset is true
newEpisodeKeepsToken(callNo, typeString, constraint, reset, toks, caller, callReset, rest) ==
  [callNo |-> callNo, typeString |-> typeString, constraint |-> constraint,
   request |-> [constraint   |-> constraint,
                versionToken |-> toks[typeString],
                threatType   |-> ThreatTypes[typeString]],
   pc |-> "call", retries |-> 0, due |-> 0,
   caller |-> caller, callReset |-> callReset, rest |-> rest]

\* lines 583-597: #requestSingleDiff builds the request and #simpleRetry makes
\* the first call.  caller, callReset and rest are the requestDiff loop that
\* awaits the episode, if one does.
newEpisode(callNo, typeString, constraint, reset, toks, caller, callReset, rest) ==
  [callNo |-> callNo, typeString |-> typeString, constraint |-> constraint,
   request |-> [constraint   |-> constraint,
                versionToken |-> IF reset THEN null ELSE toks[typeString],
                threatType   |-> ThreatTypes[typeString]],
   pc |-> "call", retries |-> 0, due |-> 0,
   caller |-> caller, callReset |-> callReset, rest |-> rest]

\* lines 432-433: #requestSingleDiff has returned to the loop of requestDiff
returned(ep) == ep.caller /\ ep.rest = <<>>
continues(ep) == ep.caller /\ ep.rest # <<>>

nextOfLoop(ep, callNo, toks) ==
  IF continues(ep)
    THEN {newEpisode(callNo, Head(ep.rest), ep.constraint, ep.callReset, toks,
                     TRUE, ep.callReset, Tail(ep.rest))}
    ELSE {}

requestDiff(type, reset, constraint) ==
  LET t == typeArrOf(type) IN
  IF ~t.ok
    THEN /\ lastDiff' = "InvalidArgument"
         /\ UNCHANGED <<now, tokens, updateTimeoutIDs, hits, databases, declared,
                        prefixSizes, timers, episodes, chk, closed, used>>
    ELSE /\ used.diffCalls < limit.diffCalls /\ used.inputs < limit.inputs
         /\ episodes' = episodes \cup
              {newEpisode(used.diffCalls + 1, Head(t.typeArr), constraint, reset,
                          tokens, TRUE, reset, Tail(t.typeArr))}
         /\ used' = [used EXCEPT !.diffCalls = @ + 1, !.inputs = @ + 1]
         /\ UNCHANGED <<now, tokens, updateTimeoutIDs, hits, databases, declared,
                        prefixSizes, timers, chk, lastDiff, closed>>

\* lines 597-613: the call succeeded
diffAnswered(ep, payload, checksumOK, nextDiff) ==
  LET typeString == ep.typeString
      response == diffResponse(payload, databases[typeString], checksumOK,
                               versionToken(ep.callNo), nextDiff)
      u        == updateDB(response, databases[typeString], prefixSizes[typeString])
      success  == validate(u.db, response.checksum)
      toks     == [tokens EXCEPT ![typeString] = u.token]
      dp       == diffPromise(timers, updateTimeoutIDs, typeString,
                              response.recommendedNextDiff, now,
                              timeoutObject(used.timeouts + 1))
      issues   == ~success \/ continues(ep)
  IN
  /\ ep \in episodes /\ ep.pc = "call"
  /\ issues => used.diffCalls < limit.diffCalls
  /\ databases' = [databases EXCEPT ![typeString] = u.db]
  /\ declared' = [declared EXCEPT ![typeString] = response.checksum]
  /\ prefixSizes' = [prefixSizes EXCEPT ![typeString] = u.sizes]
  /\ tokens' = toks
  /\ IF success
       THEN /\ timers' = dp.timers
            /\ updateTimeoutIDs' = dp.updateTimeoutIDs
            /\ episodes' = (episodes \ {ep})
                             \cup nextOfLoop(ep, used.diffCalls + 1, toks)
            /\ lastDiff' = IF returned(ep) THEN "resolved" ELSE lastDiff
            /\ used' = [used EXCEPT !.timeouts = @ + 1,
                                    !.diffCalls = IF issues THEN @ + 1 ELSE @]
       ELSE \* line 612: await this.#requestSingleDiff(typeString, constraint, true)
            /\ episodes' = (episodes \ {ep}) \cup
                 {newEpisode(used.diffCalls + 1, typeString, ep.constraint, TRUE,
                             toks, ep.caller, ep.callReset, ep.rest)}
            /\ used' = [used EXCEPT !.diffCalls = @ + 1]
            /\ UNCHANGED <<timers, updateTimeoutIDs, lastDiff>>
  /\ UNCHANGED <<now, hits, chk, closed>>

\* a failed call that forgets the version token of the category
diffFailedDropsToken(ep) ==
  /\ ep \in episodes /\ ep.pc = "call"
  /\ used.diffFailures < limit.diffFailures
  /\ used' = [used EXCEPT !.diffFailures = @ + 1]
  /\ episodes' = (episodes \ {ep}) \cup
       {[ep EXCEPT !.retries = @ + 1, !.pc = "delay",
                   !.due = now + retryDelaySeconds * 1000]}
  /\ tokens' = [tokens EXCEPT ![ep.typeString] = null]
  /\ UNCHANGED <<now, updateTimeoutIDs, hits, databases, declared, prefixSizes,
                 timers, chk, lastDiff, closed>>

\* lines 555-557 of #simpleRetry: the call failed
diffFailed(ep) ==
  /\ ep \in episodes /\ ep.pc = "call"
  /\ used.diffFailures < limit.diffFailures
  /\ used' = [used EXCEPT !.diffFailures = @ + 1]
  /\ episodes' = (episodes \ {ep}) \cup
       {[ep EXCEPT !.retries = @ + 1, !.pc = "delay",
                   !.due = now + retryDelaySeconds * 1000]}
  /\ UNCHANGED <<now, tokens, updateTimeoutIDs, hits, databases, declared, prefixSizes,
                 timers, chk, lastDiff, closed>>

\* a #simpleRetry whose loop runs while retries <= maxRetries
retryWakeOneMore(ep) ==
  LET again  == ep.retries <= simpleMaxRetries
      dp     == diffPromise(timers, updateTimeoutIDs, ep.typeString,
                            fallbackDeadline, Max(now, ep.due),
                            timeoutObject(used.timeouts + 1))
      issues == again \/ continues(ep)
  IN
  /\ ep \in episodes /\ ep.pc = "delay"
  /\ isNextDue(ep.due)
  /\ issues => used.diffCalls < limit.diffCalls
  /\ now' = Max(now, ep.due)
  /\ IF again
       THEN /\ episodes' = (episodes \ {ep}) \cup
                 {[ep EXCEPT !.pc = "call", !.callNo = used.diffCalls + 1]}
            /\ used' = [used EXCEPT !.diffCalls = @ + 1]
            /\ UNCHANGED <<timers, updateTimeoutIDs, lastDiff>>
       ELSE /\ timers' = dp.timers
            /\ updateTimeoutIDs' = dp.updateTimeoutIDs
            /\ episodes' = (episodes \ {ep})
                             \cup nextOfLoop(ep, used.diffCalls + 1, tokens)
            /\ lastDiff' = IF returned(ep) THEN "resolved" ELSE lastDiff
            /\ used' = [used EXCEPT !.timeouts = @ + 1,
                                    !.diffCalls = IF issues THEN @ + 1 ELSE @]
  /\ UNCHANGED <<tokens, hits, databases, declared, prefixSizes, chk, closed>>

\* lines 550-561 and 598-602: the delay of #simpleRetry is over; the call is
\* made again, or the retries are exhausted and the fallback timer is set
retryWake(ep) ==
  LET again  == ep.retries < simpleMaxRetries
      dp     == diffPromise(timers, updateTimeoutIDs, ep.typeString,
                            fallbackDeadline, Max(now, ep.due),
                            timeoutObject(used.timeouts + 1))
      issues == again \/ continues(ep)
  IN
  /\ ep \in episodes /\ ep.pc = "delay"
  /\ isNextDue(ep.due)
  /\ issues => used.diffCalls < limit.diffCalls
  /\ now' = Max(now, ep.due)
  /\ IF again
       THEN /\ episodes' = (episodes \ {ep}) \cup
                 {[ep EXCEPT !.pc = "call", !.callNo = used.diffCalls + 1]}
            /\ used' = [used EXCEPT !.diffCalls = @ + 1]
            /\ UNCHANGED <<timers, updateTimeoutIDs, lastDiff>>
       ELSE /\ timers' = dp.timers
            /\ updateTimeoutIDs' = dp.updateTimeoutIDs
            /\ episodes' = (episodes \ {ep})
                             \cup nextOfLoop(ep, used.diffCalls + 1, tokens)
            /\ lastDiff' = IF returned(ep) THEN "resolved" ELSE lastDiff
            /\ used' = [used EXCEPT !.timeouts = @ + 1,
                                    !.diffCalls = IF issues THEN @ + 1 ELSE @]
  /\ UNCHANGED <<tokens, hits, databases, declared, prefixSizes, chk, closed>>

\* a timer that fires without line 625, the call of #requestSingleDiff
timerFiresIdle(t) ==
  /\ t \in timers
  /\ isNextDue(t.due)
  /\ used.diffCalls < limit.diffCalls
  /\ now' = Max(now, t.due)
  /\ timers' = timers \ {t}
  /\ used' = [used EXCEPT !.diffCalls = @ + 1]
  /\ UNCHANGED <<tokens, updateTimeoutIDs, hits, databases, declared, prefixSizes, chk,
                 lastDiff, closed, episodes>>

\* line 625: the timer of #diffPromise fires
timerFires(t) ==
  /\ t \in timers
  /\ isNextDue(t.due)
  /\ used.diffCalls < limit.diffCalls
  /\ now' = Max(now, t.due)
  /\ timers' = timers \ {t}
  /\ episodes' = episodes \cup
       {newEpisode(used.diffCalls + 1, t.typeString, "{}", FALSE, tokens,
                   FALSE, FALSE, <<>>)}
  /\ used' = [used EXCEPT !.diffCalls = @ + 1]
  /\ UNCHANGED <<tokens, updateTimeoutIDs, hits, databases, declared, prefixSizes, chk,
                 lastDiff, closed>>

\* lines 541-545
close ==
  /\ timers' = {t \in timers : \A x \in Types : updateTimeoutIDs[x] # t.id}
  /\ closed' = TRUE
  /\ UNCHANGED <<now, tokens, updateTimeoutIDs, hits, databases, declared, prefixSizes,
                 episodes, chk, lastDiff, used>>


(***************************************************************************)
(* check, lines 445-489, and #exponentialBackoff, lines 564-581.           *)
(***************************************************************************)
\* check(uri, isHash) is called
check(hashes) ==
  LET r == checkLoop([idleCheck EXCEPT !.hashes = hashes, !.i = 1],
                     hits, databases, prefixSizes, now)
  IN
  /\ chk.pc = "idle"
  /\ used.checks < limit.checks /\ used.inputs < limit.inputs
  /\ chk' = r.chk
  /\ hits' = r.hits
  /\ used' = [used EXCEPT !.checks = @ + 1, !.inputs = @ + 1]
  /\ UNCHANGED <<now, tokens, updateTimeoutIDs, databases, declared, prefixSizes, timers,
                 episodes, lastDiff, closed>>

\* lines 469-480, then the loop goes on with the next candidate
searchAnswered(hs, expireTime, negativeExpireTime) ==
  LET fullHash     == chk.hashes[chk.i]
      prefixString == toHex(subarray(fullHash, 0, chk.prefixSize))
      response == searchResponse(hs, expireTime, negativeExpireTime)
      t  == threatsLoop(response.threats, 1, fullHash,
                        [positive |-> hits.positive, added |-> {}])
      h  == [positive |-> t.positive,
             negative |-> IF response.negativeExpireTime # null
                            THEN mapSet(hits.negative, prefixString,
                                        response.negativeExpireTime)
                            ELSE hits.negative]
      c  == [chk EXCEPT !.i = @ + 1,
                        !.identifiedThreats = @ \cup t.added,
                        !.log[chk.i].added = t.added,
                        !.log[chk.i].answered = TRUE,
                        !.log[chk.i].threats = hs,
                        !.log[chk.i].stored =
                           {x \in Range(hs) :
                              /\ toHex(x) \in DOMAIN t.positive
                              /\ t.positive[toHex(x)] = <<expireTime, serverTypes(x)>>}]
      r  == checkLoop(c, h, databases, prefixSizes, now)
  IN
  /\ chk.pc = "call"
  /\ hs \in ThreatHashLists(subarray(fullHash, 0, chk.prefixSize))
  /\ chk' = r.chk
  /\ hits' = r.hits
  /\ UNCHANGED <<now, tokens, updateTimeoutIDs, databases, declared, prefixSizes, timers,
                 episodes, lastDiff, closed, used>>

\* lines 573-576: the call failed
searchFailed ==
  LET delaySeconds == Min(chk.delaySeconds * 2, maxDelaySeconds) IN
  /\ chk.pc = "call"
  /\ used.searchFailures < limit.searchFailures
  /\ chk' = [chk EXCEPT !.retries = @ + 1, !.delaySeconds = delaySeconds,
                        !.pc = "delay", !.due = now + delaySeconds * 1000]
  /\ used' = [used EXCEPT !.searchFailures = @ + 1]
  /\ UNCHANGED <<now, tokens, updateTimeoutIDs, hits, databases, declared, prefixSizes,
                 timers, episodes, lastDiff, closed>>

\* lines 568-580: the delay is over; the call is made again, or the retries
\* are exhausted: the Error is caught at line 464 and line 469 reads
\* response.threats of the undefined response, which throws out of check
backoffWake ==
  /\ chk.pc = "delay"
  /\ isNextDue(chk.due)
  /\ now' = Max(now, chk.due)
  /\ chk' = IF chk.retries < backoffMaxRetries
              THEN [chk EXCEPT !.pc = "call", !.log[chk.i].calls = @ + 1]
              ELSE [chk EXCEPT !.pc = "idle", !.outcome = "rejected"]
  /\ UNCHANGED <<tokens, updateTimeoutIDs, hits, databases, declared, prefixSizes, timers,
                 episodes, lastDiff, closed, used>>

\* findHash(hash) is called from outside
findHashCall(hash) ==
  /\ used.finds < limit.finds /\ used.inputs < limit.inputs
  /\ hits' = findHash(hash, hits, databases, prefixSizes, now).hits
  /\ used' = [used EXCEPT !.finds = @ + 1, !.inputs = @ + 1]
  /\ UNCHANGED <<now, tokens, updateTimeoutIDs, databases, declared, prefixSizes, timers,
                 episodes, chk, lastDiff, closed>>

(***************************************************************************)
(* The specification.                                                      *)
(***************************************************************************)
Step ==
  \/ \E step \in TickSteps : Tick(step)
  \/ \E type \in TypeArguments, reset \in BOOLEAN, constraint \in Constraints :
       requestDiff(type, reset, constraint)
  \/ \E ep \in episodes, payload \in DiffPayloads, checksumOK \in BOOLEAN,
        nextDiff \in NextDiffTimes :
       diffAnswered(ep, payload, checksumOK, nextDiff)
  \/ \E ep \in episodes : diffFailed(ep)
  \/ \E ep \in episodes : retryWake(ep)
  \/ \E t \in timers : timerFires(t)
  \/ close
  \/ \E hashes \in CandidateLists : check(hashes)
  \/ \E hs \in SearchAnswers, expireTime \in ExpireTimes,
        negativeExpireTime \in NegativeExpireTimes :
       searchAnswered(hs, expireTime, negativeExpireTime)
  \/ searchFailed
  \/ backoffWake
  \/ \E hash \in Hashes : findHashCall(hash)

Next == Step /\ UNCHANGED limit

Spec == Init /\ [][Next]_vars

(***************************************************************************)
(* LookupSpec: syncs of malware and social, checks and passages of time;   *)
(* every remote call is answered.                                          *)
(***************************************************************************)
LookupTypes == {"malware", "social"}
LookupPayloads == {ResetOne, DiffAdd, DiffRemove}
LookupCandidates == {<<HashC, HashA>>, <<HashA, HashB>>}

LookupInit ==
  InitWith([inputs |-> LookupInputs, diffCalls |-> LookupInputs,
            diffFailures |-> 0, checks |-> LookupInputs,
            searchFailures |-> 0, finds |-> 0, ticks |-> LookupInputs])

LookupStep ==
  \/ \E step \in TickSteps : Tick(step)
  \/ \E type \in LookupTypes : requestDiff(type, FALSE, "{}")
  \/ \E ep \in episodes, payload \in LookupPayloads,
        nextDiff \in NextDiffTimes :
       diffAnswered(ep, payload, TRUE, nextDiff)
  \/ \E hashes \in LookupCandidates : check(hashes)
  \/ \E hs \in SearchAnswers, expireTime \in ExpireTimes,
        negativeExpireTime \in NegativeExpireTimes :
       searchAnswered(hs, expireTime, negativeExpireTime)

LookupNext == LookupStep /\ UNCHANGED limit

LookupSpec == LookupInit /\ [][LookupNext]_vars

(***************************************************************************)
(* ExpirySpec: one sync, then check and findHash; a searchHashes call may  *)
(* fail once, so that its answer arrives after the delay of the retry.     *)
(***************************************************************************)
\* a negativeExpireTime that has passed when the answer arrives late
ExpiryNegativeExpireTimes == NegativeExpireTimes \cup {<<StartSeconds>>}

ExpiryInit ==
  InitWith([inputs |-> ExpiryInputs, diffCalls |-> ExpiryDiffCalls,
            diffFailures |-> 0, checks |-> ExpiryChecks,
            searchFailures |-> ExpirySearchFailures,
            finds |-> ExpiryFinds, ticks |-> 0])

ExpiryStep ==
  \/ \E type \in LookupTypes : requestDiff(type, FALSE, "{}")
  \/ \E ep \in episodes, payload \in LookupPayloads,
        nextDiff \in NextDiffTimes :
       diffAnswered(ep, payload, TRUE, nextDiff)
  \/ \E hashes \in LookupCandidates : check(hashes)
  \/ \E hs \in SearchAnswers, expireTime \in ExpireTimes,
        negativeExpireTime \in ExpiryNegativeExpireTimes :
       searchAnswered(hs, expireTime, negativeExpireTime)
  \/ searchFailed
  \/ backoffWake
  \/ \E hash \in Hashes : findHashCall(hash)

ExpiryNext == ExpiryStep /\ UNCHANGED limit

ExpirySpec == ExpiryInit /\ [][ExpiryNext]_vars

(***************************************************************************)
(* SyncSpec: requestDiff with every argument and every answer of           *)
(* computeThreatListDiff, the one with a wrong checksum included.          *)
(***************************************************************************)
SyncTypes == {"malware", "all", "phishing"}
SyncPayloads == {ResetOne, ResetTwoSizes, DiffAdd, DiffBoth}

SyncInit ==
  InitWith([inputs |-> SyncDiffCalls, diffCalls |-> SyncDiffCalls,
            diffFailures |-> 0, checks |-> 0, searchFailures |-> 0,
            finds |-> 0, ticks |-> 0])

SyncStep ==
  \/ \E type \in SyncTypes, reset \in BOOLEAN, constraint \in Constraints :
       requestDiff(type, reset, constraint)
  \/ \E ep \in episodes, payload \in SyncPayloads, checksumOK \in BOOLEAN,
        nextDiff \in NextDiffTimes :
       diffAnswered(ep, payload, checksumOK, nextDiff)

SyncNext == SyncStep /\ UNCHANGED limit

SyncSpec == SyncInit /\ [][SyncNext]_vars

(***************************************************************************)
(* RetrySpec: requestDiff with two constraints, answers with a right or a  *)
(* wrong checksum, calls that fail up to the exhaustion of #simpleRetry,   *)
(* and the timers of #diffPromise.  Time passes as delays and timers come  *)
(* due.                                                                    *)
(***************************************************************************)
RetryTypes == {"malware", "all"}
RetryConstraints == {"{}", "{maxDiffEntries: 1}"}
RetryPayloads == {ResetOne, DiffAdd}

RetryInit ==
  InitWith([inputs |-> RetryDiffCalls, diffCalls |-> RetryDiffCalls,
            diffFailures |-> RetryDiffCalls, checks |-> 0,
            searchFailures |-> 0, finds |-> 0, ticks |-> 0])

RetryStep ==
  \/ \E type \in RetryTypes, constraint \in RetryConstraints :
       requestDiff(type, FALSE, constraint)
  \/ \E ep \in episodes, payload \in RetryPayloads, checksumOK \in BOOLEAN,
        nextDiff \in NextDiffTimes :
       diffAnswered(ep, payload, checksumOK, nextDiff)
  \/ \E ep \in episodes : diffFailed(ep)
  \/ \E ep \in episodes : retryWake(ep)
  \/ \E t \in timers : timerFires(t)

RetryNext == RetryStep /\ UNCHANGED limit

RetrySpec == RetryInit /\ [][RetryNext]_vars

(***************************************************************************)
(* ResyncSpec: RetrySpec with the scheduling of the event loop: a timer    *)
(* that is due fires, and a retry delay that is over ends.                 *)
(***************************************************************************)
ResyncSpec ==
  /\ RetrySpec
  /\ WF_vars((\E t \in timers : timerFires(t)) /\ UNCHANGED limit)
  /\ WF_vars((\E ep \in episodes : retryWake(ep)) /\ UNCHANGED limit)

(***************************************************************************)
(* CloseSpec: the operations of RetrySpec and close.                       *)
(***************************************************************************)
CloseInit ==
  InitWith([inputs |-> CloseDiffCalls, diffCalls |-> CloseDiffCalls,
            diffFailures |-> CloseDiffCalls, checks |-> 0,
            searchFailures |-> 0, finds |-> 0, ticks |-> 0])

CloseStep ==
  \/ RetryStep
  \/ close

CloseNext == CloseStep /\ UNCHANGED limit

CloseSpec == CloseInit /\ [][CloseNext]_vars

(***************************************************************************)
(* BackoffSpec: one sync and one check, whose searchHashes calls may fail  *)
(* until #exponentialBackoff gives up.                                     *)
(***************************************************************************)
BackoffInit ==
  InitWith([inputs |-> BackoffInputs, diffCalls |-> BackoffDiffCalls, diffFailures |-> 0,
            checks |-> BackoffChecks,
            searchFailures |-> BackoffSearchFailures,
            finds |-> 0, ticks |-> 0])

BackoffStep ==
  \/ \E type \in LookupTypes : requestDiff(type, FALSE, "{}")
  \/ \E ep \in episodes, payload \in LookupPayloads,
        nextDiff \in NextDiffTimes :
       diffAnswered(ep, payload, TRUE, nextDiff)
  \/ \E hashes \in LookupCandidates : check(hashes)
  \/ \E hs \in SearchAnswers, expireTime \in ExpireTimes,
        negativeExpireTime \in NegativeExpireTimes :
       searchAnswered(hs, expireTime, negativeExpireTime)
  \/ searchFailed
  \/ backoffWake

BackoffNext == BackoffStep /\ UNCHANGED limit

BackoffSpec == BackoffInit /\ [][BackoffNext]_vars

(***************************************************************************)
(* AttemptsSpec: syncs of malware and one check; the calls of              *)
(* computeThreatListDiff may fail until #simpleRetry gives up and those of *)
(* searchHashes until #exponentialBackoff gives up.                        *)
(***************************************************************************)
\* two calls from outside (requestDiff twice, or requestDiff and check) and
\* as many failures as each strategy takes to give up once
AttemptsInit ==
  InitWith([inputs |-> 2, diffCalls |-> AttemptsDiffCalls,
            diffFailures |-> simpleMaxRetries, checks |-> 1,
            searchFailures |-> backoffMaxRetries, finds |-> 0, ticks |-> 0])

AttemptsStep ==
  \/ requestDiff("malware", FALSE, "{}")
  \/ \E ep \in episodes, nextDiff \in NextDiffTimes :
       diffAnswered(ep, ResetOne, TRUE, nextDiff)
  \/ \E ep \in episodes : diffFailed(ep)
  \/ \E ep \in episodes : retryWake(ep)
  \/ \E t \in timers : timerFires(t)
  \/ check(<<HashA>>)
  \/ \E hs \in SearchAnswers : searchAnswered(hs, StartSeconds + 60, null)
  \/ searchFailed
  \/ backoffWake

AttemptsNext == AttemptsStep /\ UNCHANGED limit

AttemptsSpec == AttemptsInit /\ [][AttemptsNext]_vars

(***************************************************************************)
(* FrameSpec: syncs of malware and social, whose calls may fail and whose  *)
(* timers fire, next to one check and one call of findHash.                *)
(***************************************************************************)
FrameTypes == {"malware", "social"}
FramePayloads == {ResetOne}

\* three calls from outside, of them at most one check and one findHash, and
\* one failure of each remote call
FrameInit ==
  InitWith([inputs |-> 3, diffCalls |-> FrameDiffCalls,
            diffFailures |-> 1, checks |-> 1, searchFailures |-> 1,
            finds |-> 1, ticks |-> 0])

FrameStep ==
  \/ \E type \in FrameTypes : requestDiff(type, FALSE, "{}")
  \/ \E ep \in episodes, payload \in FramePayloads, checksumOK \in BOOLEAN,
        nextDiff \in NextDiffTimes :
       diffAnswered(ep, payload, checksumOK, nextDiff)
  \/ \E ep \in episodes : diffFailed(ep)
  \/ \E ep \in episodes : retryWake(ep)
  \/ \E t \in timers : timerFires(t)
  \/ check(<<HashC, HashA>>)
  \/ \E hs \in SearchAnswers : searchAnswered(hs, StartSeconds + 60, null)
  \/ searchFailed
  \/ backoffWake
  \/ \E hash \in {HashA} : findHashCall(hash)

FrameNext == FrameStep /\ UNCHANGED limit

FrameSpec == FrameInit /\ [][FrameNext]_vars

(***************************************************************************)
(* ApplySpec: the applications of #updateDB to malware: RESET and DIFF     *)
(* responses with one or two prefix lengths, with an entry listed twice,  *)
(* without additions, with removal indices inside and outside the        *)
(* database, and with an addition that equals a removed entry.             *)
(***************************************************************************)
ResetFive ==
  [responseType |-> "RESET", removals |-> null,
   additions |-> << [prefixSize |-> 4,
                     rawHashes |-> listPrefix(1) \o listPrefix(2) \o listPrefix(3)
                                     \o listPrefix(4) \o listPrefix(5)] >>]
ResetDuplicate ==
  [responseType |-> "RESET", removals |-> null,
   additions |-> << [prefixSize |-> 4,
                     rawHashes |-> listPrefix(1) \o listPrefix(2) \o listPrefix(1)] >>]
ResetEmpty ==
  [responseType |-> "RESET", removals |-> null, additions |-> null]
DiffTwoOfFive ==
  [responseType |-> "DIFF", removals |-> <<1, 3>>,
   additions |-> << [prefixSize |-> 4, rawHashes |-> listPrefix(6)] >>]
DiffOutOfBounds ==
  [responseType |-> "DIFF", removals |-> <<0, 7>>, additions |-> null]
DiffReAdd ==
  [responseType |-> "DIFF", removals |-> <<0>>,
   additions |-> << [prefixSize |-> 4, rawHashes |-> listPrefix(1)] >>]

ApplyTypes == {"malware"}
ApplyPayloads == {ResetFive, ResetDuplicate, ResetEmpty, ResetTwoSizes,
                  DiffTwoOfFive, DiffOutOfBounds, DiffReAdd}

ApplyInit ==
  InitWith([inputs |-> ApplyDiffCalls, diffCalls |-> ApplyDiffCalls,
            diffFailures |-> 0, checks |-> 0, searchFailures |-> 0,
            finds |-> 0, ticks |-> 0])

ApplyStep ==
  \/ \E type \in ApplyTypes : requestDiff(type, FALSE, "{}")
  \/ \E ep \in episodes, payload \in ApplyPayloads, checksumOK \in BOOLEAN,
        nextDiff \in NextDiffTimes :
       diffAnswered(ep, payload, checksumOK, nextDiff)

ApplyNext == ApplyStep /\ UNCHANGED limit

ApplySpec == ApplyInit /\ [][ApplyNext]_vars

(***************************************************************************)
(* The properties.  A candidate of check is judged by its entry of         *)
(* chk.log, which holds what was stored about the hash at the moment       *)
(* findHash was called for it.                                             *)
(***************************************************************************)
\* the entries of the log of the check in flight, or of the last one
logged == {chk.log[k] : k \in DOMAIN chk.log}

\* an entry's expireTime (epoch seconds) has passed
pastExpiry(expireTime) == now > expireTime * 1000

\* the hash has no hit-cache entry that has not expired
noFreshHit(hash) ==
  LET s == seenAt(hash, hits, databases, now)
  IN  ~s.positiveFresh /\ ~s.negativeFresh

\* the <<position of the category in allTypes, length>> pairs under which a
\* prefix of the hash is stored
matchesOf(hash) ==
  UNION {{<<t, Len(databases[allTypes[t]][k]) \div 2>> :
            k \in {j \in 1..Len(databases[allTypes[t]]) :
                     isPrefixOf(databases[allTypes[t]][j], toHex(hash))}} :
         t \in 1..Len(allTypes)}

\* of the stored prefixes of the hash the shortest, and of the categories that
\* store one of that length the first in enumeration order
shortestMatch(hash) ==
  LET m       == matchesOf(hash)
      lengths == {x[2] : x \in m}
      n       == CHOOSE x \in lengths : \A y \in lengths : x <= y
      cats    == {x[1] : x \in {y \in m : y[2] = n}}
      t       == CHOOSE x \in cats : \A y \in cats : x <= y
  IN  <<allTypes[t], n>>

\* C1: check never rejects because a remote verification failed on every
\* attempt of the exponential backoff: the candidate counts as a non-match,
\* every remaining candidate is still evaluated and check resolves.
C1_CheckNeverRejects ==
  /\ chk.outcome # "rejected"
  /\ chk.outcome = "resolved" => Len(chk.log) = Len(chk.hashes)

\* C2: for a hash without an unexpired hit-cache entry findHash returns the
\* shortest stored prefix, whichever category stores it; the enumeration
\* order of the categories decides only between prefixes of equal length.
C2_ShorterPrefixWins ==
  \A hash \in Hashes :
     (noFreshHit(hash) /\ matchesOf(hash) # {})
       => findHash(hash, hits, databases, prefixSizes, now).ret
            = shortestMatch(hash)


\* C3, for every hash: check makes a remote verification call for a candidate
\* exactly if findHash resolved it to a category database, and a hash that is
\* absent from all three databases causes no call and contributes nothing.
C3_AbsentContributesNothing ==
  \A e \in logged :
     /\ e.calls > 0 <=> e.ret[1] \in Types
     /\ ~e.seen.inDatabase => e.calls = 0 /\ e.added = {}

\* C3, with the exception of the positive fast path: check makes a remote
\* verification call for a candidate
\* exactly if findHash resolved it to a category database; a hash that is
\* absent from all three databases causes no call, and contributes nothing
\* unless it has an unexpired positive entry.
C3_CallIffInDatabase ==
  \A e \in logged :
     /\ e.calls > 0 <=> e.ret[1] \in Types
     /\ ~e.seen.inDatabase =>
          /\ e.calls = 0
          /\ ~e.seen.positiveFresh => e.added = {}

\* one check has called for a candidate that is in a database and has taken
\* the categories of a candidate that is in none from its positive entry
C3_Witness ==
  \E e, f \in logged :
     /\ e.calls > 0 /\ e.seen.inDatabase
     /\ ~f.seen.inDatabase /\ f.seen.positiveFresh /\ f.calls = 0
     /\ f.added # {}

\* C4: a candidate without an unexpired positive entry, a prefix of which has
\* an unexpired negative entry, causes no remote verification call and
\* contributes no categories, also when an expired positive entry of the hash
\* is stored and when the prefix is in a category database.
C4_NegativeShortCircuit ==
  \A e \in logged :
     (~e.seen.positiveFresh /\ e.seen.negativeFresh)
       => e.calls = 0 /\ e.added = {}

\* C5: a candidate with an unexpired positive entry contributes exactly the
\* categories stored in the entry and causes no remote verification call,
\* whatever the databases and the negative cache hold.
C5_PositiveFastPath ==
  \A e \in logged :
     e.seen.positiveFresh
       => /\ e.calls = 0
          /\ e.added = e.seen.positive[2]
          /\ e.ret = <<"positive", 32>>

\* a candidate took the fast path while a prefix of it was in a database and
\* had an unexpired negative entry
C5_Witness ==
  \E e \in logged :
     /\ e.seen.positiveFresh /\ e.seen.negativeFresh /\ e.seen.inDatabase
     /\ e.calls = 0 /\ e.added # {}

\* C6: a lookup made after the expireTime of a positive or negative entry
\* never resolves the hash from that entry, and deletes the entry.
C6_ExpiredEntriesDeleted ==
  [][\A hash \in Hashes :
       findHashCall(hash) =>
         LET key == toHex(hash)
             ret == findHash(hash, hits, databases, prefixSizes, now).ret
         IN  /\ (key \in DOMAIN hits.positive
                   /\ pastExpiry(hits.positive[key][1]))
                  => /\ ret[1] # "positive"
                     /\ key \notin DOMAIN hits'.positive
             /\ \A p \in DOMAIN hits.negative :
                  (isPrefixOf(p, key) /\ pastExpiry(hits.negative[p][1]))
                    => /\ ret # <<"negative", Len(p) \div 2>>
                       /\ p \notin DOMAIN hits'.negative]_vars

\* C7: after a successful verification call every threat record of the
\* response has its positive entry, with its expiry and categories, also the
\* records listed after the one that equals the queried hash; and a record
\* that equals the queried hash adds its categories to the result.
C7_EveryThreatRecordCached ==
  \A e \in logged :
     e.answered =>
       /\ Range(e.threats) \subseteq e.stored
       /\ e.hash \in Range(e.threats) => serverTypes(e.hash) \subseteq e.added

\* C8: findHash changes nothing: the hit-cache maps, the databases, the
\* prefix size sets and the tokens stay as they are, so a second call right
\* after the first returns the same pair.
C8_FindHashIsPure ==
  [][\A hash \in Hashes :
       findHashCall(hash) =>
         /\ hits' = hits
         /\ databases' = databases
         /\ prefixSizes' = prefixSizes
         /\ tokens' = tokens
         /\ findHash(hash, hits', databases', prefixSizes', now').ret
              = findHash(hash, hits, databases, prefixSizes, now).ret]_vars

\* C9: every stored prefix has its length in the prefix size set of its
\* category, so findHash resolves a hash without an unexpired hit-cache entry
\* to a category and a stored prefix whenever a prefix of it is stored; with
\* the one 4-byte prefix P in malware a hash that starts with P resolves to
\* ("malware", 4).
C9_LookupComplete ==
  /\ \A t \in Types : \A k \in 1..Len(databases[t]) :
       (Len(databases[t][k]) \div 2) \in prefixSizes[t]
  /\ \A hash \in Hashes :
       (noFreshHit(hash) /\ matchesOf(hash) # {}) =>
          LET ret == findHash(hash, hits, databases, prefixSizes, now).ret
          IN  /\ ret[1] \in Types
              /\ dbHas(databases[ret[1]], toHex(subarray(hash, 0, ret[2])))
  /\ \A hash \in {HashA, HashB} :
       (/\ noFreshHit(hash)
        /\ databases = [t \in Types |->
                          IF t = "malware" THEN <<toHex(Prefix4A)>> ELSE <<>>])
         => findHash(hash, hits, databases, prefixSizes, now).ret
              = <<"malware", 4>>

\* the RESET with the one addition P has been applied to malware and findHash
\* resolves a hash that starts with P
C9_Witness ==
  /\ tokens["malware"] # null
  /\ databases["malware"] = <<toHex(Prefix4A)>>
  /\ databases["social"] = <<>>
  /\ noFreshHit(HashA)
  /\ findHash(HashA, hits, databases, prefixSizes, now).ret = <<"malware", 4>>

\* C10: requestDiff with a string other than "malware", "social", "unwanted"
\* or "all" fails with the invalid-argument error, makes no remote call, and
\* leaves tokens, databases, prefix size sets, hit-cache maps and timers as
\* they are.
C10_InvalidTypeChangesNothing ==
  [][\A type \in TypeArguments \ (Types \cup {"all"}) :
     \A reset \in BOOLEAN : \A constraint \in Constraints :
       requestDiff(type, reset, constraint) =>
         /\ lastDiff' = "InvalidArgument"
         /\ episodes' = episodes
         /\ used'.diffCalls = used.diffCalls
         /\ UNCHANGED <<tokens, databases, prefixSizes, hits, timers,
                        updateTimeoutIDs>>]_vars

\* the call was refused while a sync was awaiting its answer and a timer of
\* an earlier sync was pending
C10_Witness ==
  /\ lastDiff = "InvalidArgument"
  /\ \E ep \in episodes : ep.pc = "call"
  /\ timers # {}
  /\ \E t \in Types : databases[t] # <<>>


(***************************************************************************)
(* Properties of the syncs.                                                *)
(***************************************************************************)
\* the episode has used up the attempts of #simpleRetry
exhausted(ep) == ep.pc = "delay" /\ ep.retries >= simpleMaxRetries

\* C11: when every attempt of the diff call of a requestDiff call has failed,
\* the promise that requestDiff returned rejects (SyncExhausted) instead of
\* resolving.
C11_ExhaustionRejects ==
  [][\A ep \in episodes :
       (exhausted(ep) /\ ep.caller /\ retryWake(ep))
         => lastDiff' = "SyncExhausted"]_vars


\* C12: in every state after close() no sync timer is pending for any
\* category: none that was pending at the call, and none that an episode or
\* a retry delay in flight at the call arms later, so that no further sync
\* episode starts from a timer.
C12_CloseReleasesTimers == closed => timers = {}


\* the checksum of the database of the type, as #validate computes it,
\* differs from the one the last applied response declared
mismatch(db, decl, type) ==
  decl[type] # null /\ sha256(fromHex(concat(db[type]))) # decl[type]

\* C13: when the checksum computed after a response was applied differs from
\* the declared one, the next diff request of the episode is for the same
\* category, without version token and with the same constraint, it is made
\* at once, without a timer, and requestDiff does not settle on the mismatch.
C13_MismatchForcesReset ==
  [][\A ep \in episodes, payload \in DiffPayloads, checksumOK \in BOOLEAN,
        nextDiff \in NextDiffTimes :
       (/\ diffAnswered(ep, payload, checksumOK, nextDiff)
        /\ mismatch(databases', declared', ep.typeString))
         => /\ ep \notin episodes'
            /\ \E e \in episodes' \ episodes :
                 /\ episodes' \ episodes = {e}
                 /\ e.typeString = ep.typeString
                 /\ e.request.versionToken = null
                 /\ e.request.constraint = ep.constraint
                 /\ e.pc = "call"
                 /\ e.caller = ep.caller /\ e.rest = ep.rest
            /\ timers' = timers
            /\ lastDiff' = lastDiff]_vars

\* a forced reset with the second constraint awaits its answer: a token is
\* stored, the request carries none, the database does not have the declared
\* checksum
C13_Witness ==
  \E e \in episodes :
     /\ e.pc = "call" /\ e.request.versionToken = null
     /\ e.request.constraint = "{maxDiffEntries: 1}"
     /\ tokens[e.typeString] # null
     /\ mismatch(databases, declared, e.typeString)


\* C14: the stored token of a category changes only together with an
\* application that passed the checksum validation: a response that fails
\* the validation does not change it.
C14_TokenOnlyWhenValidated ==
  [][\A ep \in episodes, payload \in DiffPayloads, checksumOK \in BOOLEAN,
        nextDiff \in NextDiffTimes :
       (/\ diffAnswered(ep, payload, checksumOK, nextDiff)
        /\ mismatch(databases', declared', ep.typeString))
         => tokens' = tokens]_vars


\* C15: whenever no sync episode is in flight for a category, also after one
\* that ended by the exhaustion of the retries, the database of the category
\* is still the initial empty one or has the checksum that the last response
\* applied to it declared.
C15_NoEffectOfFailedValidation ==
  \A t \in Types :
     (\A e \in episodes : e.typeString # t) => ~mismatch(databases, declared, t)


\* a hex string without its leading zero digits
RECURSIVE significant(_)
significant(str) ==
  IF str # <<>> /\ Head(str) = 0 THEN significant(Tail(str)) ELSE str

\* a < b as unsigned big-endian integers, each of its own length
integerLess(a, b) ==
  LET x == significant(a)
      y == significant(b)
  IN  \/ Len(x) < Len(y)
      \/ Len(x) = Len(y) /\ stringLess(x, y)

\* C16: after every application, RESET as well as DIFF, with additions of one
\* or of several prefix lengths in any group order, the iteration order of a
\* database is ascending, the entries compared as unsigned big-endian
\* integers of their own length.
C16_DatabaseSorted ==
  \A t \in Types : \A k \in 1..(Len(databases[t]) - 1) :
     integerLess(databases[t][k], databases[t][k + 1])


\* C17: at most one sync episode is in flight per category: neither a timer
\* that fires during a requestDiff of the category nor two overlapping
\* requestDiff calls give two episodes of one category, which would send the
\* same version token and apply their responses to the same database.
C17_OneEpisodePerCategory ==
  \A e1, e2 \in episodes : e1.typeString = e2.typeString => e1 = e2


\* C18: when every attempt of a diff call has failed, the fallback timer
\* armed for the category is due 15 minutes (900 seconds) after the
\* exhaustion, not earlier.
C18_FallbackAfterFifteenMinutes ==
  [][\A ep \in episodes :
       (exhausted(ep) /\ retryWake(ep))
         => \E t \in timers' \ timers :
              /\ t.typeString = ep.typeString
              /\ t.due >= now' + 900 * 1000]_vars


\* C19: a sync episode whose diff call fails on every attempt leaves the
\* database, the prefix size set and the version token of the category as
\* they were when it started: none of its steps, the failed calls, the
\* delays and the exhaustion, changes any of them.
C19_ExhaustedEpisodeChangesNothing ==
  [][\A ep \in episodes :
       (diffFailed(ep) \/ retryWake(ep))
         => /\ databases' = databases
            /\ prefixSizes' = prefixSizes
            /\ tokens' = tokens]_vars

\* an episode of a category that has a database and a token has ended by
\* exhaustion: its fallback timer is armed
C19_Witness ==
  /\ episodes = {}
  /\ used.diffFailures >= simpleMaxRetries
  /\ tokens["malware"] # null /\ databases["malware"] # <<>>
  /\ \E t \in timers : t.typeString = "malware" /\ t.due <= now


\* C20: each category has at most one pending sync timer, the one recorded
\* for it: a new schedule of a category cancels the pending timer of the
\* category before the new one is recorded, so a replaced timer never fires.
C20_OneTimerPerCategory ==
  /\ \A t1, t2 \in timers : t1.typeString = t2.typeString => t1 = t2
  /\ \A t \in timers : updateTimeoutIDs[t.typeString] = t.id

\* malware was scheduled twice and no timer has fired (none was due): the
\* second timer is pending, the first is gone
C20_Witness ==
  /\ used.timeouts = 2 /\ used.diffFailures = 0 /\ now = StartMs
  /\ \E t \in timers :
       /\ timers = {t}
       /\ t.typeString = "malware" /\ t.id = timeoutObject(2) /\ t.due > now
  /\ databases["social"] = <<>> /\ tokens["social"] = null


(***************************************************************************)
(* Properties of the applications.                                         *)
(***************************************************************************)
\* the prefixes that the groups of additions.rawHashes list, each group cut
\* into pieces of its prefixSize
entriesOf(additions) ==
  IF additions = null THEN {}
  ELSE UNION {{toHex(subarray(g.rawHashes, i * g.prefixSize, (i + 1) * g.prefixSize)) :
                 i \in 0..((Len(g.rawHashes) \div g.prefixSize) - 1)} :
              g \in Range(additions)}

\* the prefix lengths of the groups of additions.rawHashes
lengthsOf(additions) ==
  IF additions = null THEN {} ELSE {g.prefixSize : g \in Range(additions)}

\* C21: a RESET application, whatever the category held before, leaves a
\* database that holds exactly the entries of the additions, each once (its
\* size is the number of distinct entries of the additions), and a prefix
\* size set that is the set of the lengths of the additions.
C21_ResetReplaces ==
  [][\A ep \in episodes, payload \in ApplyPayloads, checksumOK \in BOOLEAN,
        nextDiff \in NextDiffTimes :
       (/\ diffAnswered(ep, payload, checksumOK, nextDiff)
        /\ payload.responseType = "RESET")
         => /\ Range(databases'[ep.typeString]) = entriesOf(payload.additions)
            /\ Len(databases'[ep.typeString])
                 = Cardinality(entriesOf(payload.additions))
            /\ prefixSizes'[ep.typeString] = lengthsOf(payload.additions)]_vars

\* the second response applied to malware was the RESET that lists one of
\* its two entries twice: the database holds the two, of one length
C21_Witness ==
  /\ used.diffCalls = 2 /\ episodes = {}
  /\ tokens["malware"] = versionToken(2)
  /\ databases["malware"] = <<toHex(listPrefix(1)), toHex(listPrefix(2))>>
  /\ prefixSizes["malware"] = {4}
  /\ ~mismatch(databases, declared, "malware")


\* the entries at the listed zero-based positions of the sorted order of the
\* database; a position outside the database lists none
removedOf(db, removals) ==
  IF removals = null THEN {}
  ELSE LET sorted == sortStrings(Range(db))
       IN  {sorted[k + 1] : k \in {x \in Range(removals) : x < Len(sorted)}}

\* C22: a DIFF application removes exactly the entries at the listed
\* zero-based positions of the sorted order the database had before, then
\* inserts the additions and sorts: the database is afterwards the sorted
\* list of (the entries before, less the removed ones) with the additions;
\* positions outside the database are ignored and an addition that equals a
\* removed entry is present.
C22_DiffRemovesBySortedPosition ==
  [][\A ep \in episodes, payload \in ApplyPayloads, checksumOK \in BOOLEAN,
        nextDiff \in NextDiffTimes :
       (/\ diffAnswered(ep, payload, checksumOK, nextDiff)
        /\ payload.responseType = "DIFF")
         => LET db       == databases[ep.typeString]
                expected == (Range(db) \ removedOf(db, payload.removals))
                              \cup entriesOf(payload.additions)
            IN  databases'[ep.typeString] = sortStrings(expected)]_vars


(***************************************************************************)
(* Properties of the retry strategies.                                     *)
(***************************************************************************)
\* the calls that the #simpleRetry of the episode has made so far
invocations(ep) == IF ep.pc = "call" THEN ep.retries + 1 ELSE ep.retries

\* the calls that the #exponentialBackoff of the check in flight has made
searchInvocations == IF chk.pc = "call" THEN chk.retries + 1 ELSE chk.retries

\* C23: both retry strategies make the wrapped call at least once and at
\* most 2 times (#simpleRetry) or 10 times (#exponentialBackoff); when the
\* k-th call succeeds the strategy returns at once, after exactly k calls
\* and without a delay or a further call, and the strategy gives up exactly
\* when the last allowed call has failed.
C23_AttemptsBounded ==
  [][/\ \A ep \in episodes :
          /\ invocations(ep) \in 1..simpleMaxRetries
          /\ (\E nextDiff \in NextDiffTimes :
                 diffAnswered(ep, ResetOne, TRUE, nextDiff))
               => /\ now' = now
                  /\ \A e \in episodes' \ episodes : e.retries = 0
                  /\ \A e \in episodes' : e.callNo # ep.callNo
          /\ retryWake(ep)
               => (ep.retries = simpleMaxRetries
                     <=> used'.timeouts = used.timeouts + 1)
     /\ chk.pc \in {"call", "delay"}
          => /\ searchInvocations \in 1..backoffMaxRetries
             /\ chk.log[chk.i].calls = searchInvocations
     /\ (\E hs \in SearchAnswers : searchAnswered(hs, StartSeconds + 60, null))
          => /\ now' = now
             /\ chk'.log[chk.i].calls = chk.retries + 1
             /\ chk'.pc = "idle"
     /\ backoffWake
          => (chk.retries = backoffMaxRetries <=> chk'.pc = "idle")]_vars

\* the first diff call failed and the second was answered; the first
\* searchHashes call of the check failed and the second was answered
C23_Witness ==
  /\ used.diffCalls = 2 /\ used.diffFailures = 1 /\ episodes = {}
  /\ tokens["malware"] = versionToken(2)
  /\ chk.outcome = "resolved"
  /\ \E e \in logged : e.answered /\ e.calls = 2


\* C24: the delays of #exponentialBackoff double from the start value up to
\* the cap: the delay waited after the first failed call is 1 second, each
\* later one is twice the one before, and none is longer than 32 seconds
\* (1, 2, 4, 8, 16, 32, 32, ...).
C24_DelaysDoubleFromStart ==
  [][searchFailed =>
       LET waited == chk'.due - now
       IN  /\ waited = 1000 * Min(startDelaySeconds * (2 ^ chk.retries),
                                  maxDelaySeconds)
           /\ waited <= 1000 * maxDelaySeconds]_vars


(***************************************************************************)
(* Properties of the episodes: termination, frame, periodic syncs.         *)
(***************************************************************************)
\* C25: the recursion of forced resets ends once the remote is consistent:
\* when a request without version token is answered by a RESET whose
\* declared checksum is that of its additions, the episode issues no further
\* request and ends with the timer of the category armed; as long as the
\* answers declare a checksum that does not match, the episode goes on with
\* a further request and requestDiff does not settle.
C25_ConsistentResetEndsEpisode ==
  [][\A ep \in episodes, payload \in SyncPayloads, checksumOK \in BOOLEAN,
        nextDiff \in NextDiffTimes :
       diffAnswered(ep, payload, checksumOK, nextDiff) =>
         /\ (/\ ep.request.versionToken = null
             /\ payload.responseType = "RESET"
             /\ checksumOK)
              => /\ \A e \in episodes' \ episodes : e.typeString # ep.typeString
                 /\ \E t \in timers' \ timers :
                      /\ t.typeString = ep.typeString
                      /\ t.id = updateTimeoutIDs'[ep.typeString]
         /\ ~checksumOK
              => /\ \E e \in episodes' \ episodes : e.typeString = ep.typeString
                 /\ lastDiff' = lastDiff]_vars


\* the database, the prefix size set, the version token and the timer of
\* the category stay as they are
categoryUnchanged(t) ==
  /\ databases'[t] = databases[t]
  /\ prefixSizes'[t] = prefixSizes[t]
  /\ tokens'[t] = tokens[t]
  /\ updateTimeoutIDs'[t] = updateTimeoutIDs[t]
  /\ {x \in timers' : x.typeString = t} = {x \in timers : x.typeString = t}

\* C26: check and findHash change no database, prefix size set, version
\* token or timer of any category; the steps of a sync episode of a category
\* change neither hit cache and no database, prefix size set, version token
\* or timer of another category.
C26_OwnershipOfMutation ==
  [][/\ (\/ check(<<HashC, HashA>>)
         \/ \E hs \in SearchAnswers : searchAnswered(hs, StartSeconds + 60, null)
         \/ searchFailed
         \/ backoffWake
         \/ \E hash \in {HashA} : findHashCall(hash))
          => \A t \in Types : categoryUnchanged(t)
     /\ \A ep \in episodes :
          (\/ \E payload \in FramePayloads, checksumOK \in BOOLEAN,
                 nextDiff \in NextDiffTimes :
                diffAnswered(ep, payload, checksumOK, nextDiff)
           \/ diffFailed(ep)
           \/ retryWake(ep))
            => /\ hits' = hits
               /\ \A t \in Types \ {ep.typeString} : categoryUnchanged(t)
     /\ \A x \in timers :
          timerFires(x)
            => /\ hits' = hits
               /\ \A t \in Types \ {x.typeString} : categoryUnchanged(t)]_vars

\* a check has stored a positive entry, and both categories have been
\* synced, malware twice: each has its database, its token and its timer
C26_Witness ==
  /\ chk.outcome = "resolved" /\ DOMAIN hits.positive # {}
  /\ \A t \in FrameTypes :
       /\ databases[t] # <<>> /\ tokens[t] # null
       /\ \E x \in timers : x.typeString = t
  /\ updateTimeoutIDs["malware"] = timeoutObject(3)


\* a timer of the category is pending
scheduled(t) == \E x \in timers : x.typeString = t

\* the call made last is the first one of an episode of the category that no
\* requestDiff awaits: a timer of the category has fired
startedByTimer(t) ==
  \E e \in episodes :
     /\ e.typeString = t /\ ~e.caller
     /\ e.pc = "call" /\ e.retries = 0 /\ e.callNo = used.diffCalls

\* C27: a timer of a category is armed only by a step that ends a sync
\* episode of the category, the validated application of a response or the
\* exhaustion of the retries, and after a validated application it is due at
\* the recommendedNextDiff of the response (at once if that time has
\* passed); so a category that was scheduled
\* once has, as long as close() is not called, a pending timer or an episode
\* in flight, and every pending timer leads to a further episode of the
\* category without a call of requestDiff (up to the bound on the calls of
\* the exploration).
C27_PeriodicResync ==
  /\ [][/\ \A x \in timers' \ timers :
            \E ep \in episodes \ episodes' : ep.typeString = x.typeString
       /\ \A ep \in episodes, payload \in RetryPayloads,
             checksumOK \in BOOLEAN, nextDiff \in NextDiffTimes :
            diffAnswered(ep, payload, checksumOK, nextDiff) =>
              IF mismatch(databases', declared', ep.typeString)
                THEN timers' = timers
                ELSE \E x \in timers' \ timers :
                       /\ x.typeString = ep.typeString
                       /\ x.due = Max(1000 * nextDiff, now)
                       /\ x.id = updateTimeoutIDs'[ep.typeString]]_vars
  /\ [](\A t \in Types :
          updateTimeoutIDs[t] # null
            => scheduled(t) \/ \E e \in episodes : e.typeString = t)
  /\ \A t \in Types :
       scheduled(t) ~> (startedByTimer(t) \/ used.diffCalls = limit.diffCalls)

\* the timer that a validated application armed for malware has fired at the
\* recommended time, and the episode it started is in flight
C27_Witness ==
  /\ now = 1000 * (StartSeconds + 1800)
  /\ startedByTimer("malware")
  /\ ~scheduled("malware")
  /\ tokens["malware"] # null


=============================================================================
